---- MODULE Spec2Model ----
(***************************************************************************)
(* Model of tomodachi's HTTP transport (src/tomodachi/transport/http.py):  *)
(* route and error-handler registration on a shared context, the          *)
(* idempotent start_server guard, the start routine (router construction,  *)
(* bind, discovery notification) and the dispatch of one request through   *)
(* the router, the middleware and RequestHandler.handle_error.             *)
(*                                                                         *)
(* Strings that the code inspects character by character (urls, patterns,  *)
(* request paths) are sequences of one-character strings.                  *)
(***************************************************************************)
EXTENDS Integers, Sequences, FiniteSets, TLC

\* ------------------------------------------------------------------ bounds
\* Largest number of request_handler registrations on the context.
MaxRoutes == 2
\* Largest number of error_handler registrations on the context.
MaxErrRegs == 2
\* Largest number of connections that send a request.
MaxConns == 2

\* ------------------------------------------------------- regular expressions
\* The fragment of Python's re syntax the model's urls use: literal
\* characters, "." (any character), a postfix "*" on a single atom, a
\* backslash escape of the next character, and the anchors "^" and "$".

Last(s) == s[Len(s)]

Front(s) == SubSeq(s, 1, Len(s) - 1)

\* re.compile succeeds: no trailing lone backslash ("bad escape (end of
\* pattern)"), and every "*" follows a repeatable atom ("nothing to repeat",
\* "multiple repeat").
RECURSIVE WellFormed(_, _)
WellFormed(re, repeatable) ==
    IF re = <<>> THEN TRUE
    ELSE IF Head(re) = "\\" THEN Len(re) >= 2 /\ WellFormed(SubSeq(re, 3, Len(re)), TRUE)
    ELSE IF Head(re) = "*" THEN repeatable /\ WellFormed(Tail(re), FALSE)
    ELSE IF Head(re) \in {"^", "$"} THEN WellFormed(Tail(re), FALSE)
    ELSE WellFormed(Tail(re), TRUE)

Compiles(pattern) == WellFormed(pattern, FALSE)

\* Whether the atom at the head of re (an escaped character, "." or a literal)
\* matches the character c.
AtomMatches(re, c) ==
    IF Head(re) = "\\" THEN re[2] = c
    ELSE IF Head(re) = "." THEN TRUE
    ELSE Head(re) = c

\* The positions k >= j such that every character of s in (j, k] matches the
\* atom at the head of re: the runs a starred atom can consume.
Runs(re, s, j) ==
    {k \in j..Len(s) : \A x \in (j + 1)..k : AtomMatches(re, s[x])}

\* The set of end positions of the matches of re in s that start right after
\* position j (j characters already consumed). "^" holds only at position 0,
\* "$" only at the end of s (paths hold no newline).
RECURSIVE Ends(_, _, _)
Ends(re, s, j) ==
    IF re = <<>> THEN {j}
    ELSE IF Head(re) = "^" THEN (IF j = 0 THEN Ends(Tail(re), s, j) ELSE {})
    ELSE IF Head(re) = "$" THEN (IF j = Len(s) THEN Ends(Tail(re), s, j) ELSE {})
    ELSE LET n == IF Head(re) = "\\" THEN 2 ELSE 1
             rest == SubSeq(re, n + 1, Len(re))
         IN IF rest # <<>> /\ Head(rest) = "*"
            THEN UNION {Ends(Tail(rest), s, k) : k \in Runs(re, s, j)}
            ELSE IF j < Len(s) /\ AtomMatches(re, s[j + 1])
                 THEN Ends(rest, s, j + 1)
                 ELSE {}

\* compiled_pattern.match(path): a match that starts at the beginning of the
\* path and may end anywhere in it.
Match(pattern, path) == Ends(pattern, path, 0) # {}

\* The whole of the path matches the expression.
FullMatch(re, path) == Len(path) \in Ends(re, path, 0)

\* re.sub(r'^\^?(.*)$', r'\1', url): drops one leading "^".
StripCaret(url) ==
    IF url # <<>> /\ Head(url) = "^" THEN Tail(url) ELSE url

\* re.sub(r'\$$', '', s): drops one trailing "$", whatever precedes it.
StripDollar(s) ==
    IF s # <<>> /\ Last(s) = "$" THEN Front(s) ELSE s

\* pattern = r'^{}$'.format(...)
NormalizePattern(url) == <<"^">> \o StripDollar(StripCaret(url)) \o <<"$">>

\* ------------------------------------------------------------- input sets
\* dict.get(key, default) on a mapping modelled as a function.
Get(d, k, default) == IF k \in DOMAIN d THEN d[k] ELSE default

EmptyDict == [k \in {} |-> 0]

\* The raw patterns the registrations of the model are written from.
Bases == {<<"/", "a", "b">>, <<"/", "a", ".", "*">>, <<"/", "a", "\\", "$">>}

\* A raw pattern as a caller may pass it: with and without explicit anchors.
Variants(p) == {p, <<"^">> \o p, p \o <<"$">>, <<"^">> \o p \o <<"$">>}

Urls == UNION {Variants(p) : p \in Bases}

\* Urls that re.compile refuses as they are: a repeat with nothing to repeat,
\* and a lone backslash at the end.
MalformedUrls == {<<"*">>, <<"/", "a", "\\">>}

\* Method arguments of a registration, in either letter case.
Methods == {"get", "GET", "POST", "HEAD"}

\* str.upper() on the method names of the model.
Upper(m) ==
    CASE m = "get" -> "GET"
      [] m = "post" -> "POST"
      [] m = "head" -> "HEAD"
      [] OTHER -> m

\* Status codes an error handler is registered for, or a handler raises
\* (web.HTTPNotFound, web.HTTPInternalServerError).
StatusCodes == {404, 500}

\* Requests: method and path.
ReqMethods == {"GET", "HEAD", "POST"}

Paths == {<<"/", "a", "b">>, <<"/", "a", "$">>, <<"/", "a", "$", "b">>, <<"/", "b">>}

\* What the user function of a matched route does: returns a value, raises a
\* web.HTTPException carrying a status, or raises any other exception.
Outcomes == {"ok", "http404", "http500", "error"}

OutcomeStatus(o) == IF o = "http404" THEN 404 ELSE 500

\* No Server header on a response; None as the value of server_header.
NoHeader == "<none>"

\* context['options'] of the contexts the model explores.
Configs ==
    {EmptyDict,
     [http |-> [port |-> 0, server_header |-> ""]],
     [http |-> [port |-> 8080, server_header |-> "custom"]],
     [http |-> [server_header |-> NoHeader]]}

\* Ports the operating system hands out for an ephemeral bind.
EphemeralPorts == {49152}

\* obj.discovery: has = FALSE is a service object without the attribute. A
\* registry is "ok" (has add_http_endpoint), "nocap" (lacks it), "attrerr"
\* (its add_http_endpoint raises AttributeError) or "fails" (it raises another
\* exception).
Discoveries ==
    {[has |-> FALSE, regs |-> <<>>],
     [has |-> TRUE, regs |-> <<"ok", "nocap", "ok">>],
     [has |-> TRUE, regs |-> <<"attrerr", "ok">>],
     [has |-> TRUE, regs |-> <<"ok", "fails", "ok">>]}

NoResp == [via |-> "none"]

NoCall == [exc |-> "no call"]

\* -------------------------------------------------------------------- state
VARIABLES
    options,        \* context['options'] (read-only to the transport)
    obj,            \* the service object: its discovery attribute
    conns,          \* per connection: the request sent, the handler's frame, the response
    routes,         \* context['_http_routes']: <<method, pattern, handler>> entries
    errorHandlers,  \* context['_http_error_handler']: status code -> handler
    errRegs,        \* history: the status codes of the error_handler calls, in order
    started,        \* context['_http_server_started']
    httpPort,       \* context['_http_port'], 0 while unset
    call,           \* the latest request_handler call: url, pattern, exception
    pending,        \* start routines returned by start_server and not yet run
    binds,          \* number of loop.create_server calls made
    serverHeader,   \* server_header captured by the start routine's closure
    router,         \* app.router: the resources added by add_pattern_route
    lifecycle,      \* "NotStarted", "Listening", "BindFailed" or "Aborted"
    notified,       \* the add_http_endpoint calls made on registries, in order
    resp            \* the request dispatched by the latest step and its response

vars == <<options, obj, conns, routes, errorHandlers, errRegs, started, httpPort, call,
          pending, binds, serverHeader, router, lifecycle, notified, resp>>

Init ==
    /\ options \in Configs
    /\ obj \in Discoveries
    /\ conns = <<>>
    /\ routes = <<>>
    /\ errorHandlers = EmptyDict
    /\ errRegs = <<>>
    /\ started = FALSE
    /\ httpPort = 0
    /\ call = NoCall
    /\ pending = 0
    /\ binds = 0
    /\ serverHeader = NoHeader
    /\ router = <<>>
    /\ lifecycle = "NotStarted"
    /\ notified = <<>>
    /\ resp = NoResp

\* -------------------------------------------------------------- start_server
\* start_server without its started guard: every call yields a start routine.
StartServerUnguarded ==
    /\ started' = TRUE
    /\ serverHeader' = Get(Get(options, "http", EmptyDict), "server_header", "tomodachi.io")
    /\ pending' = pending + 1

\* start_server that returns the start routine and never marks the context.
StartServerUnmarked ==
    IF started
    THEN UNCHANGED <<started, serverHeader, pending>>
    ELSE /\ started' = started
         /\ serverHeader' = Get(Get(options, "http", EmptyDict), "server_header", "tomodachi.io")
         /\ pending' = pending + 1

\* start_server(obj, context): a started context returns None at once; the
\* first call marks the context, reads server_header and returns the start
\* routine _start_server, which the caller runs later.
StartServer ==
    IF started
    THEN UNCHANGED <<started, serverHeader, pending>>
    ELSE /\ started' = TRUE
         /\ serverHeader' = Get(Get(options, "http", EmptyDict), "server_header", "tomodachi.io")
         /\ pending' = pending + 1

\* ------------------------------------------------------------- registration
\* request_handler(cls, obj, context, func, method, url): normalizes and
\* compiles the pattern (re.error leaves the context untouched), appends the
\* entry, whose handler closure is identified by its ordinal, and calls
\* start_server.
RequestHandler(method, url) ==
    /\ Len(routes) < MaxRoutes
    /\ LET pattern == NormalizePattern(url)
       IN IF ~Compiles(pattern)
          THEN /\ call' = [exc |-> "re.error", url |-> url, pattern |-> pattern,
                         added |-> FALSE]
               /\ UNCHANGED <<routes, started, serverHeader, pending>>
          ELSE /\ call' = [exc |-> "none", url |-> url, pattern |-> pattern,
                         added |-> TRUE]
               /\ routes' = Append(routes, [method |-> Upper(method),
                                            pattern |-> pattern,
                                            handler |-> Len(routes) + 1])
               /\ StartServer
    /\ resp' = NoResp
    /\ UNCHANGED <<options, obj, conns, errorHandlers, errRegs, httpPort, binds, router,
                   lifecycle, notified>>

\* The mapping write of error_handler that keeps an earlier handler.
SetErrorHandlerKeepFirst(handlers, status_code, handler) ==
    IF status_code \in DOMAIN handlers
    THEN handlers
    ELSE (status_code :> handler) @@ handlers

\* context['_http_error_handler'][int(status_code)] = handler
SetErrorHandler(handlers, status_code, handler) ==
    (status_code :> handler) @@ handlers

\* error_handler(cls, obj, context, func, status_code): writes the handler
\* closure, identified by the ordinal of the call, and calls start_server.
ErrorHandler(status_code) ==
    /\ Len(errRegs) < MaxErrRegs
    /\ errRegs' = Append(errRegs, status_code)
    /\ errorHandlers' = SetErrorHandler(errorHandlers, status_code, Len(errRegs) + 1)
    /\ StartServer
    /\ resp' = NoResp
    /\ UNCHANGED <<options, obj, conns, routes, httpPort, call, binds, router, lifecycle,
                   notified>>

\* ---------------------------------------------------------- the start routine
\* add_pattern_route that puts the new resource in front of the others.
AddPatternRouteFront(resources, method, pattern, handler) ==
    <<[pattern |-> pattern,
       routes |-> IF method = "GET"
                  THEN <<[method |-> "HEAD", handler |-> handler],
                         [method |-> method, handler |-> handler]>>
                  ELSE <<[method |-> method, handler |-> handler]>>]>> \o resources

\* add_pattern_route without the HEAD route of a GET registration.
AddPatternRouteNoHead(resources, method, pattern, handler) ==
    Append(resources, [pattern |-> pattern,
                       routes |-> <<[method |-> method, handler |-> handler]>>])

\* UrlDispatcher.add_pattern_route(method, pattern, handler): registers one
\* new resource for the pattern, holding a HEAD route before the GET route
\* when the method is GET, and the route of the method otherwise.
AddPatternRoute(resources, method, pattern, handler) ==
    Append(resources, [pattern |-> pattern,
                       routes |-> IF method = "GET"
                                  THEN <<[method |-> "HEAD", handler |-> handler],
                                         [method |-> method, handler |-> handler]>>
                                  ELSE <<[method |-> method, handler |-> handler]>>])

\* for method, pattern, handler in context.get('_http_routes', []):
\*     app.router.add_pattern_route(method.upper(), pattern, handler)
RECURSIVE BuildRouter(_, _)
BuildRouter(resources, entries) ==
    IF entries = <<>> THEN resources
    ELSE BuildRouter(AddPatternRoute(resources, Upper(Head(entries).method),
                                     Head(entries).pattern, Head(entries).handler),
                     Tail(entries))

\* The inner loop of the notification: for registry in obj.discovery, from
\* registry i on. A registry without add_http_endpoint, or one that raises
\* AttributeError, is passed over; any other exception leaves the loop.
RECURSIVE NotifyRegistries(_, _, _, _, _)
NotifyRegistries(regs, i, entry, host, port) ==
    IF i > Len(regs) THEN [log |-> <<>>, raised |-> FALSE]
    ELSE IF regs[i] = "nocap" THEN NotifyRegistries(regs, i + 1, entry, host, port)
    ELSE LET n == [registry |-> i, host |-> host, port |-> port,
                   method |-> entry.method, pattern |-> entry.pattern]
         IN IF regs[i] = "fails" THEN [log |-> <<n>>, raised |-> TRUE]
            ELSE LET more == NotifyRegistries(regs, i + 1, entry, host, port)
                 IN [log |-> <<n>> \o more.log, raised |-> more.raised]

\* The outer loop: for method, pattern, handler in context['_http_routes'].
\* A service object without a discovery attribute raises AttributeError on
\* every round, which is passed over.
RECURSIVE NotifyRoutes(_, _, _, _)
NotifyRoutes(entries, discovery, host, port) ==
    IF entries = <<>> \/ ~discovery.has THEN [log |-> <<>>, raised |-> FALSE]
    ELSE LET one == NotifyRegistries(discovery.regs, 1, Head(entries), host, port)
         IN IF one.raised THEN one
            ELSE LET more == NotifyRoutes(Tail(entries), discovery, host, port)
                 IN [log |-> one.log \o more.log, raised |-> more.raised]

\* The port read from the options, taken for the port of the socket.
ResolvedPortConfigured(http, osPort) == Get(http, "port", 0)

\* port = server.sockets[0].getsockname()[1]: the port of the bound socket,
\* which is the configured port unless that is 0 or unset, when the operating
\* system chooses one.
ResolvedPort(http, osPort) ==
    IF "port" \in DOMAIN http /\ http.port # 0 THEN http.port ELSE osPort

\* The start routine once loop.create_server has returned: the router built
\* from the route list as it is now serves, the port of the bound socket is
\* stored and the discovery registries are notified; an exception that leaves
\* the notification loops leaves the routine.
Bound(discovery, host, port) ==
    LET done == NotifyRoutes(routes, discovery, host, port)
    IN /\ router' = BuildRouter(<<>>, routes)
       /\ httpPort' = port
       /\ notified' = notified \o done.log
       /\ lifecycle' = IF done.raised THEN "Aborted" ELSE "Listening"

\* A bind made after the port is stored and the registries are notified: its
\* OSError ends a routine that has already announced the routes.
BindErrorAfterNotify(discovery, host, port) ==
    /\ httpPort' = port
    /\ notified' = notified \o NotifyRoutes(routes, discovery, host, port).log
    /\ lifecycle' = "BindFailed"
    /\ UNCHANGED router

\* except OSError: the error is logged and HttpException is raised, which
\* ends the routine before the port is stored and any registry is notified.
BindError(discovery, host, port) ==
    /\ lifecycle' = "BindFailed"
    /\ UNCHANGED <<router, httpPort, notified>>

\* _start_server(), run by the caller of start_server: builds the router from
\* the route list as it is now, binds (an OSError raises HttpException and
\* ends the routine), stores the port of the bound socket and notifies the
\* discovery registries of the service object.
StartRoutine(discovery, bindOk, osPort) ==
    /\ pending > 0
    /\ pending' = pending - 1
    /\ binds' = binds + 1
    /\ LET http == Get(options, "http", EmptyDict)
           host == Get(http, "host", "0.0.0.0")
           port == ResolvedPort(http, osPort)
       IN IF ~bindOk
          THEN BindError(discovery, host, port)
          ELSE Bound(discovery, host, port)
    /\ resp' = NoResp
    /\ UNCHANGED <<options, obj, conns, routes, errorHandlers, errRegs, started, call,
                   serverHeader>>

\* ------------------------------------------------------------------ dispatch
\* The first route of a resource that serves the method, 0 when none does.
RECURSIVE FirstRoute(_, _)
FirstRoute(rts, m) ==
    IF rts = <<>> THEN 0
    ELSE IF Head(rts).method = m THEN Head(rts).handler
    ELSE FirstRoute(Tail(rts), m)

\* Resource.resolve of a DynamicResource: the pattern is tried on the path
\* with match(); a resource whose pattern matches answers with its route for
\* the method, or with the methods it allows.
ResourceResolve(res, m, path) ==
    IF ~Match(res.pattern, path)
    THEN [handler |-> 0, allowed |-> FALSE]
    ELSE [handler |-> FirstRoute(res.routes, m), allowed |-> TRUE]

\* UrlDispatcher.resolve, from resource i on: the resources are tried in the
\* order they were added and the first that answers with a route wins; when
\* none does the miss is HTTPMethodNotAllowed (405) if some resource matched
\* the path, HTTPNotFound (404) otherwise.
RECURSIVE ResolveFrom(_, _, _, _, _)
ResolveFrom(resources, i, m, path, allowed) ==
    IF i > Len(resources)
    THEN [handler |-> 0, status |-> IF allowed THEN 405 ELSE 404]
    ELSE LET r == ResourceResolve(resources[i], m, path)
         IN IF r.handler # 0
            THEN [handler |-> r.handler, status |-> 200]
            ELSE ResolveFrom(resources, i + 1, m, path, allowed \/ r.allowed)

Resolve(resources, m, path) == ResolveFrom(resources, 1, m, path, FALSE)

\* server_header or ''
OrEmpty(server_header) ==
    IF server_header = NoHeader \/ server_header = "" THEN "" ELSE server_header

\* The web.Response a route handler returns for the value of the user
\* function: status 200, the encoded value, and a Server header of its own.
RouteResponse(handler) ==
    [status |-> 200, body |-> <<[t |-> "route", n |-> handler]>>, server |-> "data"]

\* The web.Response an error handler returns: built without a status
\* argument, so with web.Response's default status 200.
ErrorHandlerResponse(handler, status) ==
    [status |-> 200, body |-> <<[t |-> "errh", n |-> handler]>>, server |-> NoHeader]

\* The exception as the response, its body left as it was.
ExceptionResponseBodyUnset(status) ==
    [status |-> status, body |-> <<>>, server |-> NoHeader]

\* response = e; response.body = str(e).encode('utf-8'): the exception itself
\* with its reason phrase as the body.
ExceptionResponse(status) ==
    [status |-> status, body |-> <<[t |-> "reason", n |-> status]>>, server |-> NoHeader]

\* response.headers.setdefault(hdrs.SERVER, server_header or ''): a Server
\* header the handler has set is kept.
SetServerHeaderDefault(response, server_header) ==
    IF response.server # NoHeader THEN response
    ELSE [response EXCEPT !.server = OrEmpty(server_header)]

\* response.headers[hdrs.SERVER] = server_header or '', the last thing the
\* middleware does to a response.
SetServerHeader(response, server_header) ==
    [response EXCEPT !.server = OrEmpty(server_header)]

\* The status codes http.server's RESPONSES table knows.
Responses == {200, 400, 404, 405, 500}

\* Response._add_default_headers: the Server header of a protocol.Response
\* built with server_header.
AddDefaultHeaders(server_header) ==
    IF server_header # NoHeader THEN server_header ELSE NoHeader

\* handle_error whose early return is outside the try block: the connection
\* of a client that has gone keeps its keep-alive setting.
HandleErrorReturnsEarly(status, exc, debug, gone, server_header) ==
    IF gone
    THEN [sent |-> FALSE, closed |-> FALSE, status |-> status, body |-> <<>>,
          server |-> NoHeader, msg |-> <<>>]
    ELSE LET st == IF status \in Responses THEN status ELSE 500
             msg == (IF status \in Responses THEN <<[t |-> "reason", n |-> status]>> ELSE <<>>)
                    \o (IF debug /\ exc THEN <<[t |-> "traceback", n |-> 0]>> ELSE <<>>)
         IN [sent |-> TRUE, closed |-> TRUE, status |-> st, body |-> <<>>,
             server |-> IF server_header # NoHeader THEN server_header ELSE NoHeader,
             msg |-> msg]

\* RequestHandler.handle_error(status, message, payload, exc): nothing is
\* written when the client has gone; otherwise msg is put together (with the
\* traceback in debug mode) and a response with an empty body is written.
\* Every exit disables keep-alive.
HandleError(status, exc, debug, gone, server_header) ==
    IF gone
    THEN [sent |-> FALSE, closed |-> TRUE, status |-> status, body |-> <<>>,
          server |-> NoHeader, msg |-> <<>>]
    ELSE LET st == IF status \in Responses THEN status ELSE 500
             msg == (IF status \in Responses THEN <<[t |-> "reason", n |-> status]>> ELSE <<>>)
                    \o (IF debug /\ exc THEN <<[t |-> "traceback", n |-> 0]>> ELSE <<>>)
             body == <<>>
         IN [sent |-> TRUE, closed |-> TRUE, status |-> st, body |-> body,
             server |-> AddDefaultHeaders(server_header), msg |-> msg]

\* middleware_handler(request), then the server protocol around it: the
\* router resolves the request; a miss raises its HTTPException inside the
\* middleware. A route handler's response gets the Server header. A
\* web.HTTPException is answered by the error handler registered for its
\* status, or by the exception itself. Any other exception is not caught here:
\* it reaches the protocol, which calls handle_error(500, exc=exc).
Middleware(m, path, outcome, debug, gone) ==
    LET found == Resolve(router, m, path)
        base == [method |-> m, path |-> path,
                 outcome |-> IF found.handler = 0 THEN "none" ELSE outcome,
                 route |-> found.handler]
    IN IF found.handler # 0 /\ outcome = "ok"
       THEN LET r == SetServerHeader(RouteResponse(found.handler), serverHeader)
            IN base @@ [via |-> "middleware", raised |-> 0, errh |-> 0,
                        status |-> r.status,
                        body |-> r.body, server |-> r.server,
                        sent |-> TRUE, closed |-> FALSE, debug |-> FALSE, msg |-> <<>>]
       ELSE IF found.handler # 0 /\ outcome = "error"
       THEN LET r == HandleError(500, TRUE, debug, gone, OrEmpty(serverHeader))
            IN base @@ [via |-> "handle_error", raised |-> 0, errh |-> 0,
                        status |-> r.status,
                        body |-> r.body, server |-> r.server, sent |-> r.sent,
                        closed |-> r.closed, debug |-> debug, msg |-> r.msg]
       ELSE LET status == IF found.handler = 0 THEN found.status
                          ELSE OutcomeStatus(outcome)
                eh == Get(errorHandlers, status, 0)
                r == SetServerHeader(IF eh # 0 THEN ErrorHandlerResponse(eh, status)
                                     ELSE ExceptionResponse(status),
                                     serverHeader)
            IN base @@ [via |-> "middleware", raised |-> status, errh |-> eh,
                        status |-> r.status,
                        body |-> r.body, server |-> r.server,
                        sent |-> TRUE, closed |-> FALSE, debug |-> FALSE, msg |-> <<>>]

\* One request accepted on the bound socket and answered.
Request(m, path, outcome, debug, gone) ==
    /\ lifecycle \in {"Listening", "Aborted"}
    /\ resp' = Middleware(m, path, outcome, debug, gone)
    /\ UNCHANGED <<options, obj, conns, routes, errorHandlers, errRegs, started, httpPort,
                   call, pending, binds, serverHeader, router, lifecycle, notified>>

\* ------------------------------------------------------- concurrent requests
\* One slot that every handler call writes its locals to: the frame a handler
\* resumes with is the one of the latest request.
FrameShared(c) == conns[Len(conns)].frame

\* The locals of the handler coroutine serving connection c (result, routine,
\* and the request it was called with), private to that call.
Frame(c) == conns[c].frame

\* A connection sends a request and the server starts to serve it: the handler
\* closure matches the path and calls the user function. A coroutine function
\* gives a routine that is awaited, which suspends this request at its first
\* await when suspends holds; otherwise the request is answered at once. The
\* routine carries what it will do when it runs to its end.
Accept(m, path, outcome, suspends) ==
    /\ lifecycle \in {"Listening", "Aborted"}
    /\ Len(conns) < MaxConns
    /\ LET frame == [request |-> [method |-> m, path |-> path], routine |-> outcome]
           sent == [method |-> m, path |-> path, outcome |-> outcome]
       IN conns' = Append(conns,
              IF suspends /\ Resolve(router, m, path).handler # 0
              THEN [sent |-> sent, frame |-> frame, stage |-> "suspended",
                    awaited |-> TRUE, response |-> NoResp]
              ELSE [sent |-> sent, frame |-> frame, stage |-> "done",
                    awaited |-> FALSE,
                    response |-> Middleware(m, path, outcome, FALSE, FALSE)])
    /\ resp' = NoResp
    /\ UNCHANGED <<options, obj, routes, errorHandlers, errRegs, started, httpPort,
                   call, pending, binds, serverHeader, router, lifecycle, notified>>

\* The event loop resumes the suspended handler of connection c, which runs
\* to its end on its own frame; the middleware finishes the response.
Resume(c) ==
    /\ c \in DOMAIN conns
    /\ conns[c].stage = "suspended"
    /\ LET f == Frame(c)
       IN conns' = [conns EXCEPT ![c].stage = "done",
                                 ![c].response = Middleware(f.request.method,
                                                            f.request.path,
                                                            f.routine, FALSE, FALSE)]
    /\ resp' = NoResp
    /\ UNCHANGED <<options, obj, routes, errorHandlers, errRegs, started, httpPort,
                   call, pending, binds, serverHeader, router, lifecycle, notified>>

\* ----------------------------------------------------------- specifications
\* Startup: registrations at any time, with the start routine run whenever one
\* is pending; no request is sent.
Next ==
    \/ \E m \in {"get", "POST"} : RequestHandler(m, <<"/", "a", "b">>)
    \/ \E s \in StatusCodes : ErrorHandler(s)
    \/ \E ok \in BOOLEAN, p \in EphemeralPorts : StartRoutine(obj, ok, p)

Spec == Init /\ [][Next]_vars

\* Routing: a service with default options and no discovery registers its
\* routes, in any method and on overlapping patterns, before the start routine
\* runs; requests are then answered by handlers that return normally.
InitDispatch ==
    /\ Init
    /\ options = EmptyDict
    /\ obj = [has |-> FALSE, regs |-> <<>>]

NextDispatch ==
    \/ /\ binds = 0
       /\ \E m \in Methods, u \in Bases : RequestHandler(m, u)
    \/ \E ok \in BOOLEAN, p \in EphemeralPorts :
          StartRoutine(obj, ok, p)
    \/ \E m \in ReqMethods, path \in Paths : Request(m, path, "ok", FALSE, FALSE)

SpecDispatch == InitDispatch /\ [][NextDispatch]_vars

\* Errors: one GET route, error handlers registered at any time, and requests
\* whose handler returns, raises an HTTP exception or raises another exception.
NextErrors ==
    \/ /\ binds = 0
       /\ RequestHandler("GET", <<"/", "a", "b">>)
    \/ \E s \in StatusCodes : ErrorHandler(s)
    \/ \E ok \in BOOLEAN, p \in EphemeralPorts :
          StartRoutine(obj, ok, p)
    \/ \E m \in {"GET", "POST"}, path \in {<<"/", "a", "b">>, <<"/", "b">>},
          o \in Outcomes, debug \in BOOLEAN, gone \in BOOLEAN :
          /\ o = "error" \/ (~debug /\ ~gone)
          /\ Request(m, path, o, debug, gone)

SpecErrors == InitDispatch /\ [][NextErrors]_vars

\* Patterns: GET routes registered from every anchoring of every raw pattern
\* and from malformed urls, and GET requests on every path.
NextPatterns ==
    \/ /\ binds = 0
       /\ \E u \in Urls \cup MalformedUrls : RequestHandler("GET", u)
    \/ \E ok \in BOOLEAN, p \in EphemeralPorts :
          StartRoutine(obj, ok, p)
    \/ \E path \in Paths : Request("GET", path, "ok", FALSE, FALSE)

SpecPatterns == InitDispatch /\ [][NextPatterns]_vars

\* Headers: the steps of the error handling specification, on a context with
\* any of the configured server_header values.
InitHeaders ==
    /\ Init
    /\ obj = [has |-> FALSE, regs |-> <<>>]

SpecHeaders == InitHeaders /\ [][NextErrors]_vars

\* Concurrency: two routes, then connections whose requests are accepted
\* while earlier ones are suspended in their handlers.
NextConcurrent ==
    \/ /\ binds = 0
       /\ \E u \in {<<"/", "a", "b">>, <<"/", "b">>} : RequestHandler("GET", u)
    \/ \E ok \in BOOLEAN, p \in EphemeralPorts :
          StartRoutine(obj, ok, p)
    \/ \E path \in {<<"/", "a", "b">>, <<"/", "b">>, <<"/", "c">>},
         o \in {"ok", "http404"}, suspends \in BOOLEAN :
          Accept("GET", path, o, suspends)
    \/ \E c \in 1..MaxConns : Resume(c)

SpecConcurrent == InitDispatch /\ [][NextConcurrent]_vars

\* -------------------------------------------------------------------- claims
\* C1: on one context, whatever registrations are made, start_server yields a
\* single start routine: the context is started exactly when one routine has
\* been yielded (pending or already run), so at most one bind is performed.
C1_StartOnce ==
    /\ binds + pending = (IF started THEN 1 ELSE 0)
    /\ binds <= 1

\* C1 witness: several registrations were made on the context, the start
\* routine has run and bound the socket.
C1_Witness ==
    /\ Len(routes) >= 1
    /\ Len(errRegs) >= 1
    /\ binds = 1
    /\ lifecycle = "Listening"

\* C2 as stated: started never goes back to false, and no route or error
\* handler is added while started is true.
C2_Original ==
    [][started => /\ started'
                  /\ routes' = routes
                  /\ errorHandlers' = errorHandlers]_vars

\* C2 amended: started never goes back to false, and it is set by the first
\* registration call, right after that call's own write: a context that is not
\* started holds no route and no error handler (every later registration
\* writes while started is true).
C2_StartedAtFirstRegistration ==
    /\ [](~started => routes = <<>> /\ errorHandlers = EmptyDict)
    /\ [][started => started']_vars

\* C2 witness: a second route and an error handler were added to a context
\* that was already started.
C2_Witness ==
    /\ started
    /\ Len(routes) = 2
    /\ Len(errRegs) >= 1

\* A registered entry serves a request method: its own method, and HEAD when
\* it was registered with GET.
Serves(entryMethod, m) ==
    entryMethod = m \/ (entryMethod = "GET" /\ m = "HEAD")

\* The positions of the registered entries that serve the method and whose
\* pattern accepts the path.
Matching(m, path) ==
    {i \in 1..Len(routes) : Serves(routes[i].method, m) /\ Match(routes[i].pattern, path)}

Min(S) == CHOOSE x \in S : \A y \in S : x <= y

Dispatched == resp.via # "none"

\* C3: the route list and the router hold the registered entries in
\* registration order (entry i is the i-th registration), and a request runs
\* the handler of the earliest registered entry that serves its method and
\* accepts its path, never a later one (no handler when there is none).
C3_FirstRegisteredWins ==
    /\ \A i \in 1..Len(routes) : routes[i].handler = i
    /\ lifecycle = "Listening" =>
          /\ Len(router) = Len(routes)
          /\ \A i \in 1..Len(routes) :
                /\ router[i].pattern = routes[i].pattern
                /\ \A k \in 1..Len(router[i].routes) :
                      router[i].routes[k].handler = routes[i].handler
    /\ Dispatched =>
          resp.route = (IF Matching(resp.method, resp.path) = {} THEN 0
                        ELSE routes[Min(Matching(resp.method, resp.path))].handler)

\* C3 witness: GET /ab was answered by the first of two registered entries
\* that both serve GET and accept /ab.
C3_Witness ==
    /\ Dispatched
    /\ resp.method = "GET"
    /\ resp.path = <<"/", "a", "b">>
    /\ Matching(resp.method, resp.path) = {1, 2}
    /\ routes[1].pattern # routes[2].pattern
    /\ resp.route = 1

\* C4 as stated: when the error raised during dispatch carries a status and an
\* error handler is registered for it, the body is that handler's output and
\* the response status is the status of the error.
C4_OverrideKeepsStatus ==
    (Dispatched /\ resp.raised # 0 /\ resp.raised \in DOMAIN errorHandlers) =>
        /\ resp.body = <<[t |-> "errh", n |-> errorHandlers[resp.raised]]>>
        /\ resp.status = resp.raised

\* C5 as stated: a request that no registered entry both serves and accepts
\* gets status 404 and runs no route handler; without a 404 error handler the
\* body is the default text of the status.
C5_Original ==
    (Dispatched /\ Matching(resp.method, resp.path) = {}) =>
        /\ resp.route = 0
        /\ resp.status = 404
        /\ 404 \notin DOMAIN errorHandlers => resp.body = <<[t |-> "reason", n |-> 404]>>

\* The status of the miss of a request no entry serves: 405 when some
\* registered pattern accepts the path, 404 otherwise.
MissStatus(path) ==
    IF \E i \in 1..Len(routes) : Match(routes[i].pattern, path) THEN 405 ELSE 404

\* C5 amended: a request that no registered entry both serves and accepts runs
\* no route handler and is answered inside the middleware as an HTTP error,
\* 404 when no registered pattern accepts the path and 405 when one does but
\* not for the method; when no error handler is registered for that status
\* the response has that status and the default text of the status as body.
C5_MissIsNotFoundOrNotAllowed ==
    (Dispatched /\ Matching(resp.method, resp.path) = {}) =>
        /\ resp.route = 0
        /\ resp.via = "middleware"
        /\ resp.raised = MissStatus(resp.path)
        /\ resp.raised \notin DOMAIN errorHandlers =>
              /\ resp.status = resp.raised
              /\ resp.body = <<[t |-> "reason", n |-> resp.raised]>>

\* C5 witness: a request on a path that a registered pattern accepts, for a
\* method no such entry serves, was answered with 405.
C5_Witness ==
    /\ Dispatched
    /\ Matching(resp.method, resp.path) = {}
    /\ resp.status = 405
    /\ resp.route = 0

\* C6 as stated: an exception without a status raised by a matched handler is
\* answered as status 500 through the error-handler lookup: by the handler
\* registered for 500 when there is one, by the default body of 500 otherwise.
C6_UntaggedUsesLookup ==
    (Dispatched /\ resp.outcome = "error" /\ resp.sent) =>
        /\ resp.status = 500
        /\ IF 500 \in DOMAIN errorHandlers
           THEN /\ resp.errh = errorHandlers[500]
                /\ resp.body = <<[t |-> "errh", n |-> errorHandlers[500]]>>
           ELSE resp.body = <<[t |-> "reason", n |-> 500]>>

\* Whether a body holds the traceback of the exception.
HasTraceback(body) == \E i \in 1..Len(body) : body[i].t = "traceback"

\* C7 as stated: the body of the 500 response to a failed handler holds no
\* internal error text with debug off and holds the error detail with debug on.
C7_DebugShowsDetail ==
    (Dispatched /\ resp.outcome = "error" /\ resp.sent /\ resp.status = 500) =>
        (resp.debug <=> HasTraceback(resp.body))

\* The ordinal of the latest error_handler call for a status, 0 when none.
LastRegistered(status) ==
    IF \E i \in 1..Len(errRegs) : errRegs[i] = status
    THEN CHOOSE i \in 1..Len(errRegs) :
            /\ errRegs[i] = status
            /\ \A j \in (i + 1)..Len(errRegs) : errRegs[j] # status
    ELSE 0

\* C8: the mapping holds, for each status an error handler was registered
\* for, the handler of the latest registration and nothing else, and an error
\* with a status runs that handler only.
C8_LastWriteWins ==
    /\ DOMAIN errorHandlers = {errRegs[i] : i \in 1..Len(errRegs)}
    /\ \A st \in DOMAIN errorHandlers : errorHandlers[st] = LastRegistered(st)
    /\ (Dispatched /\ resp.raised # 0) => resp.errh = LastRegistered(resp.raised)

\* C8 witness: two handlers were registered for 404 and a miss ran the second.
C8_Witness ==
    /\ errRegs = <<404, 404>>
    /\ Dispatched
    /\ resp.raised = 404
    /\ resp.errh = 2

\* C9 as stated: for every path a HEAD request resolves to the entry and
\* handler the GET request for that path resolves to, and no entry registered
\* with another method than GET serves HEAD.
C9_Original ==
    (Dispatched /\ resp.method = "HEAD") =>
        /\ resp.route = Resolve(router, "GET", resp.path).handler
        /\ resp.route # 0 => routes[resp.route].method = "GET"

\* C9 amended: a HEAD request resolves to the earliest entry accepting the
\* path that was registered with GET (in any letter case) or with HEAD itself:
\* to the entry and handler of the GET request for that path whenever no
\* entry registered with HEAD accepts the path; entries registered with any
\* other method never serve HEAD.
C9_HeadFollowsGet ==
    (Dispatched /\ resp.method = "HEAD") =>
        /\ (\A i \in 1..Len(routes) :
               routes[i].method = "HEAD" => ~Match(routes[i].pattern, resp.path))
              => /\ resp.route = Resolve(router, "GET", resp.path).handler
                 /\ resp.route = 0 =>
                       resp.raised = Resolve(router, "GET", resp.path).status
        /\ resp.route # 0 => routes[resp.route].method \in {"GET", "HEAD"}

\* C9 witness: a HEAD request was answered by the handler of an entry
\* registered with GET, on a context with no HEAD registration.
C9_Witness ==
    /\ Dispatched
    /\ resp.method = "HEAD"
    /\ resp.route # 0
    /\ \A i \in 1..Len(routes) : routes[i].method # "HEAD"
    /\ routes[resp.route].method = "GET"

\* C10 as stated: the four anchorings p, ^p, p$ and ^p$ of a raw pattern p
\* normalize to the same pattern, p anchored at both ends, and a path is
\* accepted only when the whole of it matches, including for a pattern that
\* ends in an escaped dollar sign.
C10_WholePathOnly ==
    /\ call.exc = "none" =>
          \A p \in Bases :
             call.url \in Variants(p) => call.pattern = <<"^">> \o p \o <<"$">>
    /\ (Dispatched /\ resp.route # 0) =>
          FullMatch(routes[resp.route].pattern, resp.path)

\* C11: a request_handler call whose url is not a well-formed regular
\* expression fails in the call itself, and no entry for it is added to the
\* route list.
C11_MalformedRejected ==
    (call # NoCall /\ ~Compiles(call.url)) => (call.exc # "none" /\ ~call.added)

\* The registries of the service object that have add_http_endpoint.
Capable ==
    IF obj.has THEN {k \in DOMAIN obj.regs : obj.regs[k] # "nocap"} ELSE {}

\* The bind succeeded: the start routine went past loop.create_server.
BindSucceeded == lifecycle \in {"Listening", "Aborted"}

ConfiguredPort == Get(Get(options, "http", EmptyDict), "port", 0)

ConfiguredHost == Get(Get(options, "http", EmptyDict), "host", "0.0.0.0")

ConfiguredServerHeader ==
    Get(Get(options, "http", EmptyDict), "server_header", "tomodachi.io")

\* C12: a start routine whose bind fails ends with the fatal startup error:
\* the context's port stays unset and no discovery registry is notified.
C12_BindFailureAborts ==
    lifecycle = "BindFailed" => (httpPort = 0 /\ notified = <<>>)

C12_Witness ==
    /\ lifecycle = "BindFailed"
    /\ routes # <<>>
    /\ \E k \in Capable : obj.regs[k] = "ok"

\* C13: after a successful bind the context's port is the port of the bound
\* socket: the configured port when that is not 0, a valid nonzero port chosen
\* by the operating system when it is 0 or unset; every discovery
\* notification carries that port.
C13_PortIsBoundPort ==
    BindSucceeded =>
        /\ httpPort \in 1..65535
        /\ ConfiguredPort # 0 => httpPort = ConfiguredPort
        /\ ConfiguredPort = 0 => httpPort \in EphemeralPorts
        /\ \A j \in DOMAIN notified : notified[j].port = httpPort

C13_Witness ==
    /\ lifecycle = "Listening"
    /\ "http" \in DOMAIN options /\ "port" \in DOMAIN options.http
    /\ ConfiguredPort = 0
    /\ httpPort \in EphemeralPorts
    /\ notified # <<>>

\* The number of add_http_endpoint calls made on registry k for the method
\* and pattern of a route entry, with the configured host and the bound port.
Announced(k, entry) ==
    Cardinality({j \in DOMAIN notified :
                    notified[j] = [registry |-> k, host |-> ConfiguredHost,
                                   port |-> httpPort, method |-> entry.method,
                                   pattern |-> entry.pattern]})

\* The number of entries, among those the start routine saw, with the method
\* and pattern of a route entry.
Registered(entry) ==
    Cardinality({i \in DOMAIN router :
                    routes[i].method = entry.method /\ routes[i].pattern = entry.pattern})

\* C14: registries are notified only after the bind succeeded, and then once
\* for every pair of a route entry and a registry that has add_http_endpoint,
\* with the entry's method and pattern, the host and the bound port; a
\* registry without add_http_endpoint is not called.
C14_NotifiedOncePerPair ==
    /\ notified # <<>> => BindSucceeded
    /\ \A j \in DOMAIN notified : notified[j].registry \in Capable
    /\ BindSucceeded => \A i \in DOMAIN router : \A k \in Capable :
                    Announced(k, routes[i]) = Registered(routes[i])

\* C15: no exception of a registry leaves the start routine: once the bind
\* has succeeded the routine reaches the listening state.
C15_NotificationBestEffort ==
    (binds > 0 /\ lifecycle # "BindFailed") => lifecycle = "Listening"

\* C16: a response built in the middleware (a route handler's result, an error
\* handler's override or the HTTP exception itself) carries the configured
\* server_header value in its Server header, never the one the handler set.
C16_ServerHeaderAssignedLast ==
    (Dispatched /\ resp.via = "middleware") =>
        /\ resp.server # "data"
        /\ ConfiguredServerHeader \notin {"", NoHeader} =>
              resp.server = ConfiguredServerHeader

C16_Witness ==
    /\ Dispatched /\ resp.via = "middleware"
    /\ resp.route # 0 /\ resp.outcome = "ok"
    /\ resp.server = "custom"

\* C17: with server_header configured as the empty string or None, no response
\* that is sent carries a Server header.
C17_NoServerHeaderWhenEmpty ==
    (Dispatched /\ resp.sent /\ ConfiguredServerHeader \in {"", NoHeader}) =>
        resp.server = NoHeader

\* C18 as stated: keep-alive is disabled after every response, whatever path
\* produced it.
C18_Original == Dispatched => resp.closed

\* C18 amended: the transport disables keep-alive exactly on the handle_error
\* path, on every exit of handle_error, the early return for a client that has
\* gone included; the responses built in the middleware leave it as it is.
C18_KeepAliveOffInHandleError ==
    Dispatched => (resp.closed <=> resp.via = "handle_error")

C18_Witness ==
    /\ Dispatched /\ resp.via = "handle_error"
    /\ ~resp.sent
    /\ resp.closed

\* C19: a start routine that binds builds the router from the route list as
\* it is when the routine runs: one resource per entry, in registration order,
\* and no other; every one of those entries is announced to every registry
\* that has add_http_endpoint.
C19_RouterBuiltAtStart ==
    [][(binds' = binds + 1 /\ lifecycle' # "BindFailed") =>
          /\ Len(router') = Len(routes)
          /\ \A i \in DOMAIN routes :
                /\ router'[i].pattern = routes[i].pattern
                /\ \E r \in DOMAIN router'[i].routes :
                      router'[i].routes[r] = [method |-> routes[i].method,
                                              handler |-> routes[i].handler]
          /\ \A i \in DOMAIN routes : \A k \in Capable :
                \E j \in DOMAIN notified' :
                   /\ notified'[j].registry = k
                   /\ notified'[j].method = routes[i].method
                   /\ notified'[j].pattern = routes[i].pattern]_vars

\* The response the request of connection c gets when it is the only one.
Alone(c) ==
    Middleware(conns[c].sent.method, conns[c].sent.path, conns[c].sent.outcome,
               FALSE, FALSE)

\* C20: a step of a request changes nothing but its own connection: the
\* context, the router and the other connections stay as they are, and the
\* response of every answered connection is the one its request gets alone.
C20_IndependentDispatch ==
    [][conns' # conns =>
          /\ UNCHANGED <<options, obj, routes, errorHandlers, errRegs, started,
                         httpPort, serverHeader, router, lifecycle, notified>>
          /\ \E c \in DOMAIN conns' :
                \A d \in DOMAIN conns : d # c => conns'[d] = conns[d]
          /\ \A c \in DOMAIN conns' :
                conns'[c].stage = "done" =>
                   conns'[c].response =
                      Middleware(conns'[c].sent.method, conns'[c].sent.path,
                                 conns'[c].sent.outcome, FALSE, FALSE)]_vars

\* A later request was accepted, suspended, resumed and answered by its own
\* handler while an earlier request on another path is still suspended.
C20_Witness ==
    \E c \in DOMAIN conns : \E d \in DOMAIN conns :
        /\ c < d
        /\ conns[c].stage = "suspended"
        /\ conns[d].stage = "done" /\ conns[d].awaited
        /\ conns[d].sent.path # conns[c].sent.path
        /\ conns[d].response = Alone(d)
        /\ conns[d].response.route # 0

==============================================================================
